---- MODULE Spec2Model ----
(***************************************************************************)
(* A state-machine model of maze-rust: the masked grid (maze/mod.rs,       *)
(* maze/grid.rs), the carving routers (router/*.rs) and the distance       *)
(* solver (solver/*.rs).                                                   *)
(*                                                                         *)
(* Values.  A Cell is the pair <<row, column>>.  An Option<T> is a tuple:  *)
(* None is <<>> and Some(x) is <<x>>.  A HashMap is a function whose       *)
(* DOMAIN is the key set, a HashSet is a set.  Iteration over a hash       *)
(* collection has no fixed order: where the order matters the model takes  *)
(* every order.                                                            *)
(***************************************************************************)
EXTENDS Integers, Sequences, FiniteSets, TLC

VARIABLES
    rows,          \* Grid.rows
    columns,       \* Grid.columns
    cells,         \* Grid.cells : Vec<Option<Cell>>, row-major
    attributes,    \* Grid.attributes : HashMap<Cell, Attributes<Compass>>
    max_distance,  \* Grid.max_distance : Option<u32>
    router,        \* the router handed to Grid::grid: kind, SideWinder.run, RNG draws taken
    pc,            \* "carve" while Grid::grid runs router.carve, then "ready"
    pos,           \* index in cells of the next slot the traversal driver looks at
    visited,       \* the cells by_cell has been called with, in call order
    masking,       \* the positions the masking predicate handed to Grid::grid allows
    stream,        \* the values the RNG has returned so far, where a run records them
    last,          \* the most recent call on the maze: operation, arguments, return value
    trip,          \* the endpoints' link sets before the latest link_cell, for link-then-unlink
    calls,         \* the number of calls made on the finished maze, where a run bounds it
    solving        \* the call of solve in progress: its map and its stack of frontier calls

vars == <<rows, columns, cells, attributes, max_distance, router, pc, pos, visited, last, trip,
          calls, masking, stream, solving>>

(***************************************************************************)
(* Bounds of the model.                                                    *)
(***************************************************************************)
\* Largest rows*columns of a grid on which the maze operations are explored.
MaxCells == 5
\* Largest rows*columns of a grid on which only construction and carving are explored.
CarveMaxCells == 9
\* RNG draws range over 0..MaxDraw.
MaxDraw == 3
\* Largest rows*columns of a grid on which distances are applied, and the number of
\* calls made on such a maze after its construction.
DistMaxCells == 4
MaxCalls == 4

\* Largest rows*columns of a grid whose carving is replayed from the recorded RNG values.
DetMaxCells == 5

\* Largest rows*columns of a grid that is read and rendered.
ViewMaxCells == 4

\* Largest rows*columns of a masked grid on which the steps of the routers are followed.
RouterMaxCells == 4

\* Largest rows*columns of a grid on which solve is followed call by call.
SolveMaxCells == 4

\* The columns of the one-row grid on which distances beyond the last digit are
\* reached, and the number of calls made on it after its construction.
WideColumns == 39
WideCalls == 3

Draws == 0..MaxDraw

(***************************************************************************)
(* Option and HashMap helpers.                                             *)
(***************************************************************************)
None == <<>>
Some(x) == <<x>>
IsSome(o) == o # <<>>
Unwrap(o) == o[1]

EmptyMap == <<>>
\* HashMap::insert
MapInsert(map, k, v) == [x \in (DOMAIN map) \cup {k} |-> IF x = k THEN v ELSE map[x]]
\* HashMap::get
MapGet(map, k) == IF k \in DOMAIN map THEN Some(map[k]) ELSE None

(***************************************************************************)
(* Compass (maze/grid.rs).                                                 *)
(***************************************************************************)
\* Compass::iter : the variants in their fixed order
CompassIter == <<"North", "East", "South", "West">>
Compass == {CompassIter[i] : i \in 1..Len(CompassIter)}

\* reverse as it would be if it turned a quarter and not a half
reverse_quarter(d) ==
    CASE d = "North" -> "East"
      [] d = "East"  -> "South"
      [] d = "South" -> "West"
      [] d = "West"  -> "North"

reverse(d) ==
    CASE d = "North" -> "South"
      [] d = "East"  -> "West"
      [] d = "South" -> "North"
      [] d = "West"  -> "East"

\* Direction::neighbour : unchecked coordinates of the neighbour
neighbour(d, row, column) ==
    CASE d = "North" -> <<row - 1, column>>
      [] d = "East"  -> <<row, column + 1>>
      [] d = "South" -> <<row + 1, column>>
      [] d = "West"  -> <<row, column - 1>>

checked_neighbour(d, nrows, ncolumns, row, column) ==
    CASE d = "North" /\ row > 0 -> Some(neighbour(d, row, column))
      [] d = "East" /\ column < ncolumns - 1 -> Some(neighbour(d, row, column))
      [] d = "South" /\ row < nrows - 1 -> Some(neighbour(d, row, column))
      [] d = "West" /\ column > 0 -> Some(neighbour(d, row, column))
      [] OTHER -> None

\* offset as it would be if a row or column equal to the size were let through
offset_inclusive(nrows, ncolumns, row, column) ==
    IF row > nrows \/ column > ncolumns
    THEN None
    ELSE Some(row * ncolumns + column)

\* Direction::offset : the index in the row-major cell vector (0-based)
offset(nrows, ncolumns, row, column) ==
    IF row >= nrows \/ column >= ncolumns
    THEN None
    ELSE Some(row * ncolumns + column)

(***************************************************************************)
(* Construction (maze/mod.rs, maze/grid.rs).  A masking predicate is the   *)
(* set of positions it allows.                                             *)
(***************************************************************************)
Positions(nrows, ncolumns) == (0..(nrows - 1)) \X (0..(ncolumns - 1))

\* Vec indexing is 0-based, Sequences are 1-based
Slot(cs, off) == cs[off + 1]

\* _build_cells as it would be if the predicate were asked with (column, row)
build_cells_transposed(nrows, ncolumns, allowed) ==
    [i \in 1..(nrows * ncolumns) |->
        LET row == (i - 1) \div ncolumns
            column == (i - 1) % ncolumns
        IN IF <<column, row>> \in allowed THEN Some(<<row, column>>) ELSE None]

build_cells(nrows, ncolumns, allowed) ==
    [i \in 1..(nrows * ncolumns) |->
        LET row == (i - 1) \div ncolumns
            column == (i - 1) % ncolumns
        IN IF <<row, column>> \in allowed THEN Some(<<row, column>>) ELSE None]

\* _neighbours as it would be if the slot of the target were not looked at
neighbours_of_any_slot(cs, nrows, ncolumns, cell) ==
    LET target(d) == checked_neighbour(d, nrows, ncolumns, cell[1], cell[2])
    IN [d \in {x \in Compass : IsSome(target(x))} |-> Unwrap(target(d))]

\* Maze::_neighbours : the directions with an in-bounds, unmasked target
neighbours_of(cs, nrows, ncolumns, cell) ==
    LET target(d) ==
            LET n == checked_neighbour(d, nrows, ncolumns, cell[1], cell[2])
            IN IF IsSome(n)
               THEN LET off == offset(nrows, ncolumns, Unwrap(n)[1], Unwrap(n)[2])
                    IN IF IsSome(off) THEN Slot(cs, Unwrap(off)) ELSE None
               ELSE None
    IN [d \in {x \in Compass : IsSome(target(x))} |-> Unwrap(target(d))]

\* Attributes::new
Attributes_new(nbrs) == [neighbours |-> nbrs, links |-> {}, distance |-> None]

build_attributes(cs, nrows, ncolumns) ==
    [cell \in {Unwrap(cs[i]) : i \in {j \in 1..Len(cs) : IsSome(cs[j])}} |->
        Attributes_new(neighbours_of(cs, nrows, ncolumns, cell))]

(***************************************************************************)
(* Maze accessors and link operations (maze/mod.rs).                       *)
(***************************************************************************)
\* Maze::cells : the unmasked cells, in the order of their slots
maze_cells(cs) ==
    LET some == SelectSeq(cs, IsSome)
    IN [i \in 1..Len(some) |-> Unwrap(some[i])]

\* Maze::cell
maze_cell(cs, nrows, ncolumns, row, column) ==
    LET off == offset(nrows, ncolumns, row, column)
    IN IF IsSome(off)
       THEN (IF Unwrap(off) + 1 \in DOMAIN cs THEN Slot(cs, Unwrap(off)) ELSE None)
       ELSE None

neighbours(attrs, cell) == attrs[cell].neighbours
links(attrs, cell) == attrs[cell].links

\* Attributes::add_link / Attributes::remove_link on the attributes of one cell
add_link(attrs, cell, d) ==
    [attrs EXCEPT ![cell].links = @ \cup {d}]

\* remove_link as it would be if it emptied the set
remove_link_clear(attrs, cell, d) ==
    [attrs EXCEPT ![cell].links = {}]

remove_link(attrs, cell, d) ==
    [attrs EXCEPT ![cell].links = @ \ {d}]

\* link_cell as it would be if the neighbour's side were forgotten
link_cell_oneway(attrs, cell, d) ==
    LET nb == MapGet(neighbours(attrs, cell), d)
    IN IF IsSome(nb)
       THEN [attributes |-> add_link(attrs, cell, d), ret |-> nb]
       ELSE [attributes |-> attrs, ret |-> None]

\* link_cell as it would be if it returned the cell it was called with
link_cell_ret_self(attrs, cell, d) ==
    LET nb == MapGet(neighbours(attrs, cell), d)
    IN IF IsSome(nb)
       THEN [attributes |-> add_link(add_link(attrs, cell, d), Unwrap(nb), reverse(d)),
             ret |-> Some(cell)]
       ELSE [attributes |-> attrs, ret |-> None]

\* link_cell as it would be if the link were recorded before the neighbour lookup
link_cell_unguarded(attrs, cell, d) ==
    LET nb == MapGet(neighbours(attrs, cell), d)
    IN IF IsSome(nb)
       THEN [attributes |-> add_link(add_link(attrs, cell, d), Unwrap(nb), reverse(d)),
             ret |-> nb]
       ELSE [attributes |-> add_link(attrs, cell, d), ret |-> None]

\* Maze::link_cell : the maze afterwards and the returned Option<Cell>
link_cell(attrs, cell, d) ==
    LET nb == MapGet(neighbours(attrs, cell), d)
    IN IF IsSome(nb)
       THEN LET to == Unwrap(nb)
            IN [attributes |-> add_link(add_link(attrs, cell, d), to, reverse(d)),
                ret |-> Some(to)]
       ELSE [attributes |-> attrs, ret |-> None]

\* unlink_cell as it would be if it returned the neighbour only when a link was removed
unlink_cell_ret_removed(attrs, cell, d) ==
    LET nb == MapGet(neighbours(attrs, cell), d)
    IN IF IsSome(nb)
       THEN [attributes |-> remove_link(remove_link(attrs, cell, d), Unwrap(nb), reverse(d)),
             ret |-> IF d \in links(attrs, cell) THEN nb ELSE None]
       ELSE [attributes |-> attrs, ret |-> None]

\* Maze::unlink_cell
unlink_cell(attrs, cell, d) ==
    LET nb == MapGet(neighbours(attrs, cell), d)
    IN IF IsSome(nb)
       THEN LET to == Unwrap(nb)
            IN [attributes |-> remove_link(remove_link(attrs, cell, d), to, reverse(d)),
                ret |-> Some(to)]
       ELSE [attributes |-> attrs, ret |-> None]

\* cmp::max
Max(a, b) == IF a >= b THEN a ELSE b

RECURSIVE MaxOver(_, _)
MaxOver(values, acc) ==
    IF values = {}
    THEN acc
    ELSE LET v == CHOOSE x \in values : TRUE
         IN MaxOver(values \ {v}, Max(acc, v))

\* apply_distances as it would be if max were left at its first value
apply_distances_no_max(attrs, map) ==
    [attributes |-> [cell \in DOMAIN attrs |->
                        IF cell \in DOMAIN map
                        THEN [attrs[cell] EXCEPT !.distance = Some(map[cell])]
                        ELSE attrs[cell]],
     max_distance |-> Some(0)]

\* apply_distances as it would be if it replaced the attributes of a cell
apply_distances_rebuild(attrs, map) ==
    [attributes |-> [cell \in DOMAIN attrs |->
                        IF cell \in DOMAIN map
                        THEN [neighbours |-> EmptyMap, links |-> links(attrs, cell),
                              distance |-> Some(map[cell])]
                        ELSE attrs[cell]],
     max_distance |-> Some(MaxOver({map[c] : c \in DOMAIN map}, 0))]

\* Maze::apply_distances on the map of Distances::all_cells : every pair of the
\* map is written to its cell, max is the running maximum from 0
apply_distances(attrs, map) ==
    [attributes |-> [cell \in DOMAIN attrs |->
                        IF cell \in DOMAIN map
                        THEN [attrs[cell] EXCEPT !.distance = Some(map[cell])]
                        ELSE attrs[cell]],
     max_distance |-> Some(MaxOver({map[c] : c \in DOMAIN map}, 0))]

(***************************************************************************)
(* Text rendering (maze/grid.rs, impl fmt::Display for Grid).  A string is *)
(* the sequence of its chars, each a one-character string.                 *)
(***************************************************************************)
VDIV == "|"
HDIV == "-"
CORNER == "+"
CELL == " "
LINK == " "
\* the full block U+2588, written here as an ASCII character
NONE == "#"
NEWLINE == "\n"

\* Maze::has_link
has_link(attrs, cell, d) ==
    IF IsSome(cell) THEN d \in attrs[Unwrap(cell)].links ELSE FALSE

\* the digits of char::from_digit
Digits ==
    <<"0", "1", "2", "3", "4", "5", "6", "7", "8", "9", "a", "b", "c", "d", "e", "f", "g", "h",
      "i", "j", "k", "l", "m", "n", "o", "p", "q", "r", "s", "t", "u", "v", "w", "x", "y", "z">>

\* char::from_digit(n, radix)
from_digit(n, radix) == IF n < radix THEN Some(Digits[n + 1]) ELSE None

\* the closures handed to write_row by fmt
fmt_corner(attrs, cell) == CORNER
fmt_border(attrs, cell) == <<HDIV, HDIV>>
\* the divider closure as it would be if it looked at the West link
fmt_east_west(attrs, cell) == IF has_link(attrs, cell, "West") THEN LINK ELSE VDIV
fmt_east(attrs, cell) == IF has_link(attrs, cell, "East") THEN LINK ELSE VDIV
\* the body closure as it would be if the distance were written in base 10
fmt_body_decimal(attrs, cell) ==
    IF IsSome(cell)
    THEN LET distance == attrs[Unwrap(cell)].distance
         IN IF IsSome(distance) /\ IsSome(from_digit(Unwrap(distance), 10))
            THEN <<Unwrap(from_digit(Unwrap(distance), 10)), CELL>>
            ELSE <<CELL, CELL>>
    ELSE <<NONE, NONE>>

fmt_body(attrs, cell) ==
    IF IsSome(cell)
    THEN LET distance == attrs[Unwrap(cell)].distance
         IN IF IsSome(distance) /\ IsSome(from_digit(Unwrap(distance), 36))
            THEN <<Unwrap(from_digit(Unwrap(distance), 36)), CELL>>
            ELSE <<CELL, CELL>>
    ELSE <<NONE, NONE>>
fmt_south(attrs, cell) ==
    IF has_link(attrs, cell, "South") THEN <<LINK, LINK>> ELSE <<HDIV, HDIV>>

\* the closures f1 and f2 that fmt hands to write_row for the top border
\* ("top"), the body line ("body") and the closing line ("closing")
f1(line, attrs, cell) ==
    IF line = "body" THEN fmt_east(attrs, cell) ELSE fmt_corner(attrs, cell)
f2(line, attrs, cell) ==
    CASE line = "top" -> fmt_border(attrs, cell)
      [] line = "body" -> fmt_body(attrs, cell)
      [] line = "closing" -> fmt_south(attrs, cell)

\* the chars write_row pushes for the cells of `row`: for each cell, `scale`
\* chars of f2 (ch in the middle, pad around it) and then the char of f1
write_cells(attrs, scale, row, line) ==
    [k \in 1..(Len(row) * (scale + 1)) |->
        LET cell == row[((k - 1) \div (scale + 1)) + 1]
            i == (k - 1) % (scale + 1)
        IN IF i < scale
           THEN (IF i = scale \div 2 THEN f2(line, attrs, cell)[1] ELSE f2(line, attrs, cell)[2])
           ELSE f1(line, attrs, cell)]

\* Grid::write_row : the chars appended to the string
write_row(attrs, scale, row, line) ==
    <<f1(line, attrs, None)>> \o write_cells(attrs, scale, row, line) \o <<NEWLINE>>

\* <Grid as fmt::Display>::fmt for the rows from `row` on
RECURSIVE fmt_rows(_, _, _, _, _)
fmt_rows(nrows, ncolumns, cs, attrs, row) ==
    IF row >= nrows
    THEN <<>>
    ELSE LET start == row * ncolumns
             end == start + ncolumns
             slice == SubSeq(cs, start + 1, end)
         IN (IF row = 0 THEN write_row(attrs, 3, slice, "top") ELSE <<>>)
            \o write_row(attrs, 3, slice, "body")
            \o write_row(attrs, 3, slice, "closing")
            \o fmt_rows(nrows, ncolumns, cs, attrs, row + 1)

\* <Grid as fmt::Display>::fmt : the string written
fmt(nrows, ncolumns, cs, attrs) == fmt_rows(nrows, ncolumns, cs, attrs, 0)

(***************************************************************************)
(* Routers (router/mod.rs, router/binarytree.rs, router/sidewinder.rs).    *)
(* A router is [kind, preferred, directions, run, draws]: preferred is     *)
(* BinaryTree.preferred, directions is SideWinder.directions (top, side),  *)
(* run is SideWinder.run, rng is the RNG the router borrows and draws       *)
(* counts the values taken from it.                                        *)
(***************************************************************************)
\* an RNG of which nothing is known: each value is any of Draws
AnyRng == [mock |-> FALSE, initial |-> 0, increment |-> 0]

\* rand::rngs::mock::StepRng::new(initial, increment), as the tests build it
StepRng_new(initial, increment) == [mock |-> TRUE, initial |-> initial, increment |-> increment]

\* the values rng.gen() can return at the k-th call: StepRng returns initial,
\* initial + increment, initial + 2 * increment, ...
Gen(rng, k) == IF rng.mock THEN {rng.initial + (k - 1) * rng.increment} ELSE Draws

\* BinaryTree::new_for_compass
BinaryTree_new_for_compass ==
    [kind |-> "BinaryTree", preferred |-> <<"North", "East">>,
     directions |-> <<"North", "East">>, run |-> <<>>, draws |-> 0,
     rng |-> AnyRng]

\* SideWinder::new_for_compass
SideWinder_new_for_compass ==
    [kind |-> "SideWinder", preferred |-> <<"North", "East">>,
     directions |-> <<"North", "East">>, run |-> <<>>, draws |-> 0,
     rng |-> AnyRng]

\* router::internal::NoOp
NoOp_new ==
    [kind |-> "NoOp", preferred |-> <<"North", "East">>,
     directions |-> <<"North", "East">>, run |-> <<>>, draws |-> 0,
     rng |-> AnyRng]

\* BinaryTree::direction as it would be if only the first preferred direction were tried
BinaryTree_direction_first(attrs, rt, cell, draw) ==
    IF IsSome(MapGet(neighbours(attrs, cell), rt.preferred[1]))
    THEN [direction |-> Some(rt.preferred[1]), drew |-> 0]
    ELSE [direction |-> None, drew |-> 0]

\* BinaryTree::direction as it would be if the value came from a source of its
\* own and not from the injected RNG
BinaryTree_direction_own_rng(attrs, rt, cell, draw) ==
    LET nbrs == neighbours(attrs, cell)
        HasNeighbour(d) == IsSome(MapGet(nbrs, d))
        directions == SelectSeq(rt.preferred, HasNeighbour)
    IN CASE Len(directions) = 0 -> [direction |-> None, drew |-> 0]
         [] Len(directions) = 1 -> [direction |-> Some(directions[1]), drew |-> 0]
         [] OTHER -> [direction |-> Some(directions[(draw % Len(directions)) + 1]),
                      drew |-> 0]

\* BinaryTree::direction as it would be if the RNG were asked for a single candidate too
BinaryTree_direction_eager(attrs, rt, cell, draw) ==
    LET nbrs == neighbours(attrs, cell)
        HasNeighbour(d) == IsSome(MapGet(nbrs, d))
        directions == SelectSeq(rt.preferred, HasNeighbour)
    IN CASE Len(directions) = 0 -> [direction |-> None, drew |-> 0]
         [] OTHER -> [direction |-> Some(directions[(draw % Len(directions)) + 1]),
                      drew |-> 1]

\* BinaryTree::direction : the chosen direction and whether the RNG was drawn from;
\* draw is the value rng.gen::<usize>() would return
BinaryTree_direction(attrs, rt, cell, draw) ==
    LET nbrs == neighbours(attrs, cell)
        HasNeighbour(d) == IsSome(MapGet(nbrs, d))
        directions == SelectSeq(rt.preferred, HasNeighbour)
    IN CASE Len(directions) = 0 -> [direction |-> None, drew |-> 0]
         [] Len(directions) = 1 -> [direction |-> Some(directions[1]), drew |-> 0]
         [] OTHER -> [direction |-> Some(directions[(draw % Len(directions)) + 1]),
                      drew |-> 1]

\* by_cell as it would be if it linked every preferred direction that has a neighbour
BinaryTree_by_cell_every(attrs, rt, cell, draw) ==
    LET choice == BinaryTree_direction(attrs, rt, cell, draw)
        after == [rt EXCEPT !.draws = @ + choice.drew]
        first == link_cell(attrs, cell, rt.preferred[1]).attributes
    IN [attributes |-> link_cell(first, cell, rt.preferred[2]).attributes, router |-> after]

\* BinaryTree::by_cell
BinaryTree_by_cell(attrs, rt, cell, draw) ==
    LET choice == BinaryTree_direction(attrs, rt, cell, draw)
        after == [rt EXCEPT !.draws = @ + choice.drew]
    IN IF IsSome(choice.direction)
       THEN [attributes |-> link_cell(attrs, cell, Unwrap(choice.direction)).attributes,
             router |-> after]
       ELSE [attributes |-> attrs, router |-> after]

\* SideWinder::close_row as it would be if the coin were flipped in the top row too
SideWinder_close_row_flip(attrs, cell, top, side, coin) ==
    IF side \notin DOMAIN neighbours(attrs, cell)
    THEN [close |-> TRUE, drew |-> 0]
    ELSE [close |-> (coin % 2 = 0), drew |-> 1]

\* SideWinder::close_row as it would be if the coin were flipped before the
\* side neighbour is looked at
SideWinder_close_row_coin_first(attrs, cell, top, side, coin) ==
    LET nbrs == neighbours(attrs, cell)
    IN IF top \in DOMAIN nbrs
       THEN [close |-> (coin % 2 = 0) \/ side \notin DOMAIN nbrs, drew |-> 1]
       ELSE [close |-> side \notin DOMAIN nbrs, drew |-> 0]

\* SideWinder::close_row : coin is the value rng.gen::<u16>() would return; the
\* RNG is drawn from only when the side and the top neighbour both exist
SideWinder_close_row(attrs, cell, top, side, coin) ==
    LET nbrs == neighbours(attrs, cell)
    IN IF side \notin DOMAIN nbrs
       THEN [close |-> TRUE, drew |-> 0]
       ELSE IF top \in DOMAIN nbrs
            THEN [close |-> (coin % 2 = 0), drew |-> 1]
            ELSE [close |-> FALSE, drew |-> 0]

\* SideWinder::random_cell as it would be if it took the first cell of the run
SideWinder_random_cell_first(run, pick) == run[1]

\* SideWinder::random_cell : pick is the value rng.gen::<usize>() would return
SideWinder_random_cell(run, pick) == run[(pick % Len(run)) + 1]

\* SideWinder::by_cell
SideWinder_by_cell(attrs, rt, cell, coin, pick) ==
    LET top == rt.directions[1]
        side == rt.directions[2]
        run == Append(rt.run, cell)
        closing == SideWinder_close_row(attrs, cell, top, side, coin)
    IN IF closing.close
       THEN [attributes |-> link_cell(attrs, SideWinder_random_cell(run, pick), top).attributes,
             router |-> [rt EXCEPT !.run = <<>>, !.draws = @ + closing.drew + 1]]
       ELSE [attributes |-> link_cell(attrs, cell, side).attributes,
             router |-> [rt EXCEPT !.run = run, !.draws = @ + closing.drew]]

\* the drivers as they would be if they took the last unmasked slot, not the next
NextCell_last(cs, p) ==
    LET rest == {i \in p..Len(cs) : IsSome(cs[i])}
    IN IF rest = {} THEN Len(cs) + 1 ELSE CHOOSE i \in rest : \A j \in rest : i >= j

\* Router::carve_by_cell and Router::carve_by_row with the default by_row both
\* walk the slots in row-major order and skip the masked ones: the index of the
\* first unmasked slot at or after p, or Len(cs) + 1
NextCell(cs, p) ==
    LET rest == {i \in p..Len(cs) : IsSome(cs[i])}
    IN IF rest = {} THEN Len(cs) + 1 ELSE CHOOSE i \in rest : \A j \in rest : i <= j

\* the k-th value of an RNG that returns `values` in this order
RngNext(values, k) == IF k <= Len(values) THEN values[k] ELSE 0

\* router.carve(&mut grid, c) from slot p on, with an RNG that returns `values`
\* in this order: the attributes and the router when the driver has run out of slots
RECURSIVE Carve(_, _, _, _, _)
Carve(cs, attrs, rt, p, values) ==
    LET q == NextCell(cs, p)
    IN IF rt.kind = "NoOp" \/ q > Len(cs)
       THEN [attributes |-> attrs, router |-> rt]
       ELSE LET cell == Unwrap(cs[q])
                coin == RngNext(values, rt.draws + 1)
                flipped == SideWinder_close_row(attrs, cell, rt.directions[1],
                                                rt.directions[2], coin)
                pick == RngNext(values, rt.draws + flipped.drew + 1)
                r == IF rt.kind = "BinaryTree"
                     THEN BinaryTree_by_cell(attrs, rt, cell, RngNext(values, rt.draws + 1))
                     ELSE SideWinder_by_cell(attrs, rt, cell, coin, pick)
            IN Carve(cs, r.attributes, r.router, q + 1, values)

\* Grid::grid(rows, columns, allowed, router) with an RNG that returns `values`
Grid_grid(nrows, ncolumns, allowed, rt, values) ==
    LET cs == build_cells(nrows, ncolumns, allowed)
    IN [rows |-> nrows, columns |-> ncolumns, cells |-> cs,
        attributes |-> Carve(cs, build_attributes(cs, nrows, ncolumns), rt, 1, values).attributes,
        max_distance |-> None]

(***************************************************************************)
(* Solver (solver/mod.rs, solver/dijkstra.rs).                             *)
(***************************************************************************)
\* Distances::build_distances : the cells at each distance.  The Vec of a
\* distance is filled in the iteration order of a HashMap, so it is kept as the
\* set of its elements.
build_distances(map) ==
    [k \in {map[c] : c \in DOMAIN map} |-> {c \in DOMAIN map : map[c] = k}]

\* Distances::new
Distances_new(map) == [cells |-> map, distances |-> build_distances(map)]

\* Distances::all_cells
all_cells(distances) == distances.cells

\* Distances::cells : the cells at a distance, none when the distance is not a key
Distances_cells(distances, distance) ==
    IF distance \in DOMAIN distances.distances THEN distances.distances[distance] ELSE {}

\* Distances::distance : the distance of a cell, or a panic when it has none
Distances_distance(distances, cell) ==
    IF cell \in DOMAIN distances.cells
    THEN [panic |-> FALSE, value |-> Some(distances.cells[cell])]
    ELSE [panic |-> TRUE, value |-> None]

\* Distances::start : the first cell of the Vec at distance 0, which can be any
\* of its cells, or a panic when no Vec is there
Distances_start(distances) ==
    IF 0 \in DOMAIN distances.distances
    THEN [panic |-> FALSE, results |-> distances.distances[0]]
    ELSE [panic |-> TRUE, results |-> {}]

\* Dijkstra::frontier.  `for direction in maze.links(&cell)` walks a HashSet,
\* whose order is not fixed: the result is the set of maps the call can leave
\* behind, one for every order in which the links of each cell can be walked.
\* FrontierLinks walks the directions of `cell` still to be taken, from each of
\* the maps the walk so far can have produced.
RECURSIVE Frontier(_, _, _, _), FrontierLinks(_, _, _, _, _)
\* the loop of frontier as it would be if the recursive call were given depth
FrontierLinks_flat(attrs, maps, cell, todo, depth) ==
    IF todo = {}
    THEN maps
    ELSE UNION {
            LET nb == MapGet(neighbours(attrs, cell), direction)
                after == UNION {
                    IF IsSome(nb) /\ Unwrap(nb) \notin DOMAIN m
                    THEN Frontier(attrs, m, Unwrap(nb), depth)
                    ELSE {m} : m \in maps}
            IN FrontierLinks(attrs, after, cell, todo \ {direction}, depth)
         : direction \in todo}

FrontierLinks(attrs, maps, cell, todo, depth) ==
    IF todo = {}
    THEN maps
    ELSE UNION {
            LET nb == MapGet(neighbours(attrs, cell), direction)
                after == UNION {
                    IF IsSome(nb) /\ Unwrap(nb) \notin DOMAIN m
                    THEN Frontier(attrs, m, Unwrap(nb), depth + 1)
                    ELSE {m} : m \in maps}
            IN FrontierLinks(attrs, after, cell, todo \ {direction}, depth)
         : direction \in todo}

\* Dijkstra::frontier as it would be if it walked the neighbours, not the links
Frontier_neighbours(attrs, map, cell, depth) ==
    FrontierLinks(attrs, {MapInsert(map, cell, depth)}, cell,
                  DOMAIN neighbours(attrs, cell), depth)

Frontier(attrs, map, cell, depth) ==
    FrontierLinks(attrs, {MapInsert(map, cell, depth)}, cell, links(attrs, cell), depth)

\* Dijkstra::frontier, call by call.  A call of solve in progress is [map, stack,
\* entered]: map is the HashMap, stack holds one frame [cell, todo, depth] per
\* call of frontier that has not returned, todo being the links its loop has
\* still to walk, and entered lists the cells frontier was called with.
\* frontier_call is the entry of frontier: the insert and the start of the loop.
\* A link to a cell that is a key of the map at the entry is skipped whenever
\* the loop comes to it, since keys are never removed: todo is kept without it.
frontier_call(attrs, s, cell, depth) ==
    LET map == MapInsert(s.map, cell, depth)
        Skipped(d) == LET c == MapGet(neighbours(attrs, cell), d)
                      IN IsSome(c) /\ Unwrap(c) \in DOMAIN map
    IN [map |-> map,
        stack |-> Append(s.stack, [cell |-> cell,
                                   todo |-> {d \in links(attrs, cell) : ~Skipped(d)},
                                   depth |-> depth]),
        entered |-> Append(s.entered, cell)]

\* one iteration of the loop as it would be without the test map.contains_key(c)
frontier_step_revisit(attrs, s, direction) ==
    LET top == s.stack[Len(s.stack)]
        walked == [s EXCEPT !.stack[Len(s.stack)].todo = @ \ {direction}]
        c == MapGet(neighbours(attrs, top.cell), direction)
    IN IF IsSome(c)
       THEN frontier_call(attrs, walked, Unwrap(c), top.depth + 1)
       ELSE walked

\* one iteration of the loop of the innermost call, for a direction of its todo
frontier_step(attrs, s, direction) ==
    LET top == s.stack[Len(s.stack)]
        walked == [s EXCEPT !.stack[Len(s.stack)].todo = @ \ {direction}]
        c == MapGet(neighbours(attrs, top.cell), direction)
    IN IF IsSome(c) /\ Unwrap(c) \notin DOMAIN s.map
       THEN frontier_call(attrs, walked, Unwrap(c), top.depth + 1)
       ELSE walked

\* the loop of the innermost call has no link left: the call returns
frontier_return(s) == [s EXCEPT !.stack = SubSeq(@, 1, Len(@) - 1)]

\* solve as it would be if a missing start cell gave an empty result
Dijkstra_solve_lenient(cs, attrs, nrows, ncolumns, start) ==
    LET cell == maze_cell(cs, nrows, ncolumns, start[1], start[2])
    IN IF IsSome(cell)
       THEN [panic |-> FALSE,
             results |-> {Distances_new(m) :
                            m \in Frontier(attrs, EmptyMap, Unwrap(cell), 0)}]
       ELSE [panic |-> FALSE, results |-> {Distances_new(EmptyMap)}]

\* Dijkstra::solve (Solver::solve for Dijkstra): the Distances it can return,
\* or no value when maze.cell(start) is None and expect() panics
Dijkstra_solve(cs, attrs, nrows, ncolumns, start) ==
    LET cell == maze_cell(cs, nrows, ncolumns, start[1], start[2])
    IN IF IsSome(cell)
       THEN [panic |-> FALSE,
             results |-> {Distances_new(m) :
                            m \in Frontier(attrs, EmptyMap, Unwrap(cell), 0)}]
       ELSE [panic |-> TRUE, results |-> {}]

(***************************************************************************)
(* The state machine.                                                      *)
(***************************************************************************)
NoCall == [op |-> "none", cell |-> None, dir |-> None, was |-> FALSE, ret |-> None]
NoTrip == [open |-> FALSE, closed |-> FALSE, from |-> None, dir |-> None,
           to |-> None, from_links |-> {}, to_links |-> {}]

\* Grid::grid has returned: its borrow of the router has ended and the maze is
\* the caller's; the router is no longer part of the state
Returned ==
    [kind |-> "returned", preferred |-> <<>>, directions |-> <<>>, run |-> <<>>, draws |-> 0,
     rng |-> AnyRng]

\* the traversal driver has called by_cell for every unmasked cell
CarveDone == pc = "carve" /\ NextCell(cells, pos) > Len(cells)

Routers == {NoOp_new, BinaryTree_new_for_compass, SideWinder_new_for_compass}

\* the RNG has returned `values`, in this order
Drawn(recorded, values) ==
    IF IsSome(recorded) THEN Some(Unwrap(recorded) \o values) ELSE recorded

\* Grid::grid(nrows, ncolumns, allowed, rt) up to the call of router.carve:
\* cells and attributes are built, links are empty, no distance is set.
\* recorded is Some(<<>>) where the run records the values of the RNG, or None.
InitShape(nrows, ncolumns, allowed, rt, recorded) ==
    /\ rows = nrows
    /\ columns = ncolumns
    /\ cells = build_cells(nrows, ncolumns, allowed)
    /\ attributes = build_attributes(build_cells(nrows, ncolumns, allowed),
                                     nrows, ncolumns)
    /\ max_distance = None
    /\ router = rt
    /\ pc = "carve"
    /\ pos = 1
    /\ visited = <<>>
    /\ last = NoCall
    /\ trip = NoTrip
    /\ calls = 0
    /\ masking = allowed
    /\ stream = recorded
    /\ solving = None

\* Grid::grid up to the call of router.carve, for every grid of at most
\* maxcells slots with each dimension at least mindim and every mask
InitMaze(mindim, maxcells, routers, recorded) ==
    \E nrows \in mindim..maxcells, ncolumns \in mindim..maxcells :
        /\ nrows * ncolumns <= maxcells
        /\ \E allowed \in SUBSET Positions(nrows, ncolumns), rt \in routers :
              InitShape(nrows, ncolumns, allowed, rt, recorded)

\* the grids with at least one row and one column, the RNG not recorded
InitGrid(maxcells, routers) == InitMaze(1, maxcells, routers, None)

Init == InitGrid(MaxCells, Routers)

\* NoOp::carve : returns at once
NoOpCarve ==
    /\ pc = "carve"
    /\ router.kind = "NoOp"
    /\ pc' = "ready"
    /\ router' = Returned
    /\ UNCHANGED <<rows, columns, cells, masking, stream, attributes, max_distance, pos, visited,
                   last, trip>>

\* one iteration of carve_by_cell for BinaryTree: skip masked slots, call by_cell
BinaryTreeStep ==
    /\ pc = "carve"
    /\ router.kind = "BinaryTree"
    /\ NextCell(cells, pos) <= Len(cells)
    /\ \E draw \in Gen(router.rng, router.draws + 1) :
        LET p == NextCell(cells, pos)
            cell == Unwrap(cells[p])
            r == BinaryTree_by_cell(attributes, router, cell, draw)
        IN /\ attributes' = r.attributes
           /\ router' = r.router
           /\ stream' = Drawn(stream, IF r.router.draws > router.draws
                                       THEN <<draw>> ELSE <<>>)
           /\ pos' = p + 1
           /\ visited' = Append(visited, cell)
    /\ UNCHANGED <<rows, columns, cells, masking, max_distance, pc, last, trip>>

\* one iteration of carve_by_row / by_row for SideWinder
SideWinderStep ==
    /\ pc = "carve"
    /\ router.kind = "SideWinder"
    /\ NextCell(cells, pos) <= Len(cells)
    /\ \E coin \in Gen(router.rng, router.draws + 1) :
       \E pick \in Gen(router.rng, router.draws + 1
                         + SideWinder_close_row(attributes, Unwrap(cells[NextCell(cells, pos)]),
                                                router.directions[1], router.directions[2],
                                                coin).drew) :
        LET p == NextCell(cells, pos)
            cell == Unwrap(cells[p])
            r == SideWinder_by_cell(attributes, router, cell, coin, pick)
            flipped == SideWinder_close_row(attributes, cell, router.directions[1],
                                            router.directions[2], coin)
        IN /\ attributes' = r.attributes
           /\ router' = r.router
           /\ stream' = Drawn(stream, (IF flipped.drew = 1 THEN <<coin>> ELSE <<>>)
                                       \o (IF flipped.close THEN <<pick>> ELSE <<>>))
           /\ pos' = p + 1
           /\ visited' = Append(visited, cell)
    /\ UNCHANGED <<rows, columns, cells, masking, max_distance, pc, last, trip>>

\* the traversal driver runs out of slots: carve returns and Grid::grid returns the maze
CarveReturn ==
    /\ pc = "carve"
    /\ router.kind # "NoOp"
    /\ CarveDone
    /\ pc' = "ready"
    /\ pos' = Len(cells) + 1
    /\ router' = Returned
    /\ UNCHANGED <<rows, columns, cells, masking, stream, attributes, max_distance, visited,
                   last, trip>>

Cells == DOMAIN attributes

\* a call of Maze::link_cell on the finished maze.  last.was tells whether the
\* direction was in the cell's links before the call.
LinkCell ==
    /\ pc = "ready"
    /\ \E cell \in Cells, d \in Compass :
        LET r == link_cell(attributes, cell, d)
        IN /\ attributes' = r.attributes
           /\ last' = [op |-> "link_cell", cell |-> Some(cell), dir |-> Some(d),
                       was |-> (d \in links(attributes, cell)), ret |-> r.ret]
           /\ trip' = [open |-> TRUE, closed |-> FALSE, from |-> Some(cell),
                       dir |-> Some(d), to |-> r.ret,
                       from_links |-> links(attributes, cell),
                       to_links |-> IF IsSome(r.ret)
                                    THEN links(attributes, Unwrap(r.ret))
                                    ELSE {}]
    /\ UNCHANGED <<rows, columns, cells, masking, stream, max_distance, router, pc, pos, visited>>

\* a call of Maze::unlink_cell on the finished maze.  It closes a round trip when
\* it follows the link_cell of the same cell and direction, or names the same
\* passage from the neighbour's side.
UnlinkCell ==
    /\ pc = "ready"
    /\ \E cell \in Cells, d \in Compass :
        LET r == unlink_cell(attributes, cell, d)
            same == trip.open /\ trip.from = Some(cell) /\ trip.dir = Some(d)
            back == trip.open /\ trip.to = Some(cell) /\ trip.dir = Some(reverse(d))
        IN /\ attributes' = r.attributes
           /\ last' = [op |-> "unlink_cell", cell |-> Some(cell), dir |-> Some(d),
                       was |-> (d \in links(attributes, cell)), ret |-> r.ret]
           /\ trip' = IF same \/ back
                      THEN [trip EXCEPT !.open = FALSE, !.closed = TRUE]
                      ELSE NoTrip
    /\ UNCHANGED <<rows, columns, cells, masking, stream, max_distance, router, pc, pos, visited>>

\* start coordinates a caller can pass to solve: every position of the rectangle
\* and the positions one row or one column outside it
Starts == (0..rows) \X (0..columns)

\* a call of Dijkstra::solve on the finished maze; a panic leaves the maze as it was
Solve ==
    /\ pc = "ready"
    /\ \E start \in Starts :
        LET r == Dijkstra_solve(cells, attributes, rows, columns, start)
        IN IF r.panic
           THEN last' = [op |-> "solve_panic", cell |-> Some(start), dir |-> None,
                         was |-> FALSE, ret |-> None]
           ELSE \E d \in r.results :
                   last' = [op |-> "solve", cell |-> Some(start), dir |-> None,
                            was |-> FALSE, ret |-> Some(d)]
    /\ trip' = NoTrip
    /\ UNCHANGED <<rows, columns, cells, masking, stream, attributes, max_distance, router, pc, pos, visited>>

\* a call of Maze::apply_distances with the Distances that solve has just
\* returned, as in main: grid.apply_distances(Dijkstra::solve(&grid, start))
ApplyDistances ==
    /\ pc = "ready"
    /\ last.op = "solve"
    /\ LET r == apply_distances(attributes, all_cells(Unwrap(last.ret)))
       IN /\ attributes' = r.attributes
          /\ max_distance' = r.max_distance
    /\ last' = [op |-> "apply_distances", cell |-> None, dir |-> None, was |-> FALSE,
                ret |-> last.ret]
    /\ trip' = NoTrip
    /\ UNCHANGED <<rows, columns, cells, masking, stream, router, pc, pos, visited>>

\* a call of Maze::cells on the finished maze
CellsQuery ==
    /\ pc = "ready"
    /\ last' = [op |-> "cells", cell |-> None, dir |-> None, was |-> FALSE,
                ret |-> Some(maze_cells(cells))]
    /\ trip' = NoTrip
    /\ UNCHANGED <<rows, columns, cells, masking, stream, attributes, max_distance, router, pc,
                   pos, visited>>

\* a call of Maze::cell on the finished maze, with coordinates inside the
\* rectangle or one row or column outside it
CellQuery ==
    /\ pc = "ready"
    /\ \E p \in Starts :
          last' = [op |-> "cell", cell |-> Some(p), dir |-> None, was |-> FALSE,
                   ret |-> maze_cell(cells, rows, columns, p[1], p[2])]
    /\ trip' = NoTrip
    /\ UNCHANGED <<rows, columns, cells, masking, stream, attributes, max_distance, router, pc,
                   pos, visited>>

\* the finished maze is formatted with {}: print!("{}", grid), grid.to_string()
Display ==
    /\ pc = "ready"
    /\ last' = [op |-> "fmt", cell |-> None, dir |-> None, was |-> FALSE,
                ret |-> Some(fmt(rows, columns, cells, attributes))]
    /\ trip' = NoTrip
    /\ UNCHANGED <<rows, columns, cells, masking, stream, attributes, max_distance, router, pc,
                   pos, visited>>

\* Dijkstra::solve is called on the finished maze: maze.cell(start) panics or
\* frontier is called for the start cell with depth 0
SolveBegin ==
    /\ pc = "ready"
    /\ solving = None
    /\ \E start \in Starts :
        LET cell == maze_cell(cells, rows, columns, start[1], start[2])
        IN IF IsSome(cell)
           THEN /\ solving' = Some(frontier_call(attributes,
                                     [map |-> EmptyMap, stack |-> <<>>, entered |-> <<>>],
                                     Unwrap(cell), 0))
                /\ last' = [op |-> "solving", cell |-> Some(start), dir |-> None,
                            was |-> FALSE, ret |-> None]
           ELSE /\ solving' = None
                /\ last' = [op |-> "solve_panic", cell |-> Some(start), dir |-> None,
                            was |-> FALSE, ret |-> None]
    /\ trip' = NoTrip
    /\ UNCHANGED <<rows, columns, cells, masking, stream, attributes, max_distance, router, pc,
                   pos, visited>>

\* the innermost call of frontier walks one more link, in any order, or returns
SolveStep ==
    /\ IsSome(solving)
    /\ Unwrap(solving).stack # <<>>
    /\ LET s == Unwrap(solving)
           top == s.stack[Len(s.stack)]
       IN IF top.todo = {}
          THEN solving' = Some(frontier_return(s))
          ELSE \E direction \in top.todo :
                  solving' = Some(frontier_step(attributes, s, direction))
    /\ UNCHANGED <<rows, columns, cells, masking, stream, attributes, max_distance, router, pc,
                   pos, visited, last, trip>>

\* the first call of frontier has returned: solve returns Distances::new(map)
SolveEnd ==
    /\ IsSome(solving)
    /\ Unwrap(solving).stack = <<>>
    /\ solving' = None
    /\ last' = [last EXCEPT !.op = "solve",
                             !.ret = Some(Distances_new(Unwrap(solving).map))]
    /\ UNCHANGED <<rows, columns, cells, masking, stream, attributes, max_distance, router, pc,
                   pos, visited, trip>>

\* a step of the construction, or a call on the finished maze with the calls not counted
Free(A) == A /\ UNCHANGED <<calls, solving>>
\* a call on the finished maze, counted and bounded
Counted(A) == A /\ calls < MaxCalls /\ calls' = calls + 1 /\ UNCHANGED solving
\* a step of a call of solve
Uncounted(A) == A /\ UNCHANGED calls

\* Construction, then any calls of link_cell, unlink_cell and solve.
Next ==
    \/ Free(NoOpCarve)
    \/ Free(BinaryTreeStep)
    \/ Free(SideWinderStep)
    \/ Free(CarveReturn)
    \/ Free(LinkCell)
    \/ Free(UnlinkCell)
    \/ Free(Solve)

Spec == Init /\ [][Next]_vars

\* Construction and carving alone, on larger grids.
InitCarve == InitGrid(CarveMaxCells, Routers)

NextCarve ==
    \/ Free(NoOpCarve)
    \/ Free(BinaryTreeStep)
    \/ Free(SideWinderStep)
    \/ Free(CarveReturn)

SpecCarve == InitCarve /\ [][NextCarve]_vars

\* Construction, then at most MaxCalls calls of link_cell, unlink_cell, solve and
\* apply_distances.
InitDist == InitGrid(DistMaxCells, Routers)

NextDist ==
    \/ Free(NoOpCarve)
    \/ Free(BinaryTreeStep)
    \/ Free(SideWinderStep)
    \/ Free(CarveReturn)
    \/ Counted(LinkCell)
    \/ Counted(UnlinkCell)
    \/ Counted(Solve)
    \/ Counted(ApplyDistances)

SpecDist == InitDist /\ [][NextDist]_vars

\* Construction and carving by BinaryTree and SideWinder, the values of the RNG recorded.
InitDet ==
    InitMaze(1, DetMaxCells, {BinaryTree_new_for_compass, SideWinder_new_for_compass},
             Some(<<>>))

NextDet ==
    \/ Free(BinaryTreeStep)
    \/ Free(SideWinderStep)
    \/ Free(CarveReturn)

SpecDet == InitDet /\ [][NextDet]_vars

\* Construction of a grid that may have no row or no column, then any calls of
\* link_cell, unlink_cell, cells and cell, and renderings as text.
InitView == InitMaze(0, ViewMaxCells, Routers, None)

NextView ==
    \/ Free(NoOpCarve)
    \/ Free(BinaryTreeStep)
    \/ Free(SideWinderStep)
    \/ Free(CarveReturn)
    \/ Free(LinkCell)
    \/ Free(UnlinkCell)
    \/ Free(CellsQuery)
    \/ Free(CellQuery)
    \/ Free(Display)

SpecView == InitView /\ [][NextView]_vars

\* a call on the finished maze before the first call of solve
Building(A) == last.op \in {"none", "link_cell"} /\ Free(A)

\* Construction, then any calls of link_cell, then calls of solve followed step
\* by step.  The program is sequential and keeps running: a step
\* of the construction or of a call of solve that can be taken is taken.
Running == <<pc, pos, solving>>

InitSolve == InitGrid(SolveMaxCells, Routers)

NextSolve ==
    \/ Free(NoOpCarve)
    \/ Free(BinaryTreeStep)
    \/ Free(SideWinderStep)
    \/ Free(CarveReturn)
    \/ Building(LinkCell)
    \/ Uncounted(SolveBegin)
    \/ Uncounted(SolveStep)
    \/ Uncounted(SolveEnd)

SpecSolve == InitSolve /\ [][NextSolve]_vars /\ WF_Running(NextSolve)

\* Construction by BinaryTree of a grid of one row, unmasked or with its second
\* position masked, then at most WideCalls calls of solve, followed step by
\* step, and of apply_distances and renderings as text.
InitWide ==
    \E allowed \in {Positions(1, WideColumns), Positions(1, WideColumns) \ {<<0, 1>>}} :
        InitShape(1, WideColumns, allowed, BinaryTree_new_for_compass, None)

NextWide ==
    \/ Free(BinaryTreeStep)
    \/ Free(CarveReturn)
    \/ (calls < WideCalls /\ calls' = calls + 1 /\ SolveBegin)
    \/ Uncounted(SolveStep)
    \/ Uncounted(SolveEnd)
    \/ (calls < WideCalls /\ solving = None /\ Counted(ApplyDistances))
    \/ (calls < WideCalls /\ solving = None /\ Counted(Display))

SpecWide == InitWide /\ [][NextWide]_vars

\* The grids of the routers' tests: three rows and three columns, no mask,
\* BinaryTree with StepRng::new(0, 1) and SideWinder with StepRng::new(1, 1)
TestRouters ==
    {[BinaryTree_new_for_compass EXCEPT !.rng = StepRng_new(0, 1)],
     [SideWinder_new_for_compass EXCEPT !.rng = StepRng_new(1, 1)]}

\* Construction and carving by BinaryTree and SideWinder, of every masked grid
\* with any RNG and of the grids of the tests, the values of the RNG recorded;
\* then calls of solve.
InitRouter ==
    \/ InitMaze(1, RouterMaxCells, {BinaryTree_new_for_compass, SideWinder_new_for_compass},
                Some(<<>>))
    \/ \E rt \in TestRouters : InitShape(3, 3, Positions(3, 3), rt, Some(<<>>))

NextRouter ==
    \/ Free(BinaryTreeStep)
    \/ Free(SideWinderStep)
    \/ Free(CarveReturn)
    \/ Free(Solve)

SpecRouter == InitRouter /\ [][NextRouter]_vars

(***************************************************************************)
(* Properties.                                                             *)
(***************************************************************************)
LinksOf(cell) == links(attributes, cell)
NeighboursOf(cell) == neighbours(attributes, cell)

\* C1: link symmetry.  In every state of the construction and of the finished
\* maze, whatever link_cell, unlink_cell, carving and apply_distances calls led
\* to it, a direction d is in links(A) exactly when A has a neighbour B in
\* direction d and d.reverse() is in links(B).
C1_LinkSymmetry ==
    \A A \in Cells, d \in Compass :
        d \in LinksOf(A) <=>
            /\ d \in DOMAIN NeighboursOf(A)
            /\ reverse(d) \in LinksOf(NeighboursOf(A)[d])

\* a carved maze after MaxCalls calls, the last an apply_distances, in which a
\* cell with a distance has a passage
C1_Witness ==
    /\ pc = "ready"
    /\ last.op = "apply_distances"
    /\ calls = MaxCalls
    /\ visited # <<>>
    /\ \E A \in Cells : \E d \in LinksOf(A) :
          /\ reverse(d) \in LinksOf(NeighboursOf(A)[d])
          /\ IsSome(attributes[A].distance)

\* the step is a call of op with a direction in which the cell has a neighbour
CalledWithNeighbour(op) ==
    /\ last'.op = op
    /\ Unwrap(last'.dir) \in DOMAIN NeighboursOf(Unwrap(last'.cell))

\* the step is a call of op with a direction in which the cell has no neighbour
CalledWithoutNeighbour(op) ==
    /\ last'.op = op
    /\ Unwrap(last'.dir) \notin DOMAIN NeighboursOf(Unwrap(last'.cell))

\* C2: link_cell(cell, dir) with dir in the cell's neighbour map puts dir in
\* links(cell) and dir.reverse() in the neighbour's links (and nothing else in
\* either), returns the neighbour, and leaves the links of every other cell
\* alone; when the direction was linked already, no link set changes.
C2_LinkCellContract ==
    [][CalledWithNeighbour("link_cell") =>
        LET cell == Unwrap(last'.cell)
            d == Unwrap(last'.dir)
            to == NeighboursOf(cell)[d]
        IN /\ last'.ret = Some(to)
           /\ d \in links(attributes', cell)
           /\ reverse(d) \in links(attributes', to)
           /\ links(attributes', cell) = LinksOf(cell) \cup {d}
           /\ links(attributes', to) = LinksOf(to) \cup {reverse(d)}
           /\ \A other \in Cells \ {cell, to} : links(attributes', other) = LinksOf(other)
           /\ (d \in LinksOf(cell) =>
                  \A any \in Cells : links(attributes', any) = LinksOf(any))
           /\ DOMAIN attributes' = DOMAIN attributes
      ]_vars

\* link_cell has just opened a passage that was closed, from a cell that had
\* another passage already
C2_Witness ==
    /\ last.op = "link_cell"
    /\ IsSome(last.ret)
    /\ ~last.was
    /\ Unwrap(last.dir) \in LinksOf(Unwrap(last.cell))
    /\ Cardinality(LinksOf(Unwrap(last.cell))) >= 2

\* C3: link_cell and unlink_cell on an unmasked cell, with a direction that has
\* no neighbour (the grid's edge or a masked position), return None and leave
\* every link set, neighbour map and distance as it was.
C3_NoNeighbourNoOp ==
    [][(CalledWithoutNeighbour("link_cell") \/ CalledWithoutNeighbour("unlink_cell")) =>
        /\ last'.ret = None
        /\ attributes' = attributes
        /\ max_distance' = max_distance
        /\ cells' = cells
      ]_vars

\* link_cell was called toward a masked position inside the rectangle, on a maze
\* that has passages
C3_Witness ==
    /\ last.op = "link_cell"
    /\ last.ret = None
    /\ LET cell == Unwrap(last.cell)
           n == checked_neighbour(Unwrap(last.dir), rows, columns, cell[1], cell[2])
       IN /\ IsSome(n)
          /\ maze_cell(cells, rows, columns, Unwrap(n)[1], Unwrap(n)[2]) = None
    /\ \E A \in Cells : LinksOf(A) # {}

\* the round trip the latest unlink_cell has closed left both endpoints' link
\* sets as they were before its link_cell
TripRestored ==
    /\ LinksOf(Unwrap(trip.from)) = trip.from_links
    /\ IsSome(trip.to) => LinksOf(Unwrap(trip.to)) = trip.to_links

\* the direction of the round trip was in the cell's links before its link_cell
TripWasLinked == Unwrap(trip.dir) \in trip.from_links

\* C4 as claimed: link_cell(cell, dir) followed by unlink_cell(cell, dir), or by
\* unlink_cell from the neighbour with dir.reverse(), leaves both endpoints' link
\* sets as they were before the link_cell, in every link state.
C4_RoundTripAlways == trip.closed => TripRestored

\* C4 as amended: the round trip restores both endpoints' link sets when the
\* direction was not linked before the link_cell call (this includes the calls
\* with no neighbour).
C4_RoundTrip == (trip.closed /\ ~TripWasLinked) => TripRestored

\* a round trip over a passage that was closed, between cells of which the first
\* had another passage, unlinked from the neighbour's side
C4_Witness ==
    /\ trip.closed
    /\ IsSome(trip.to)
    /\ ~TripWasLinked
    /\ trip.from_links # {}
    /\ last.op = "unlink_cell"
    /\ last.cell = trip.to
    /\ TripRestored

\* C5: unlink_cell(cell, dir) with dir in the cell's neighbour map takes dir out
\* of links(cell) and dir.reverse() out of the neighbour's links, returns the
\* neighbour whether or not the link existed, and leaves the links of every
\* other cell alone.
C5_UnlinkCellContract ==
    [][CalledWithNeighbour("unlink_cell") =>
        LET cell == Unwrap(last'.cell)
            d == Unwrap(last'.dir)
            to == NeighboursOf(cell)[d]
        IN /\ last'.ret = Some(to)
           /\ links(attributes', cell) = LinksOf(cell) \ {d}
           /\ links(attributes', to) = LinksOf(to) \ {reverse(d)}
           /\ \A other \in Cells \ {cell, to} : links(attributes', other) = LinksOf(other)
           /\ DOMAIN attributes' = DOMAIN attributes
      ]_vars

\* unlink_cell was called on a passage that was not open, between cells that
\* have other passages, and returned the neighbour
C5_Witness ==
    /\ last.op = "unlink_cell"
    /\ ~last.was
    /\ IsSome(last.ret)
    /\ LinksOf(Unwrap(last.cell)) # {}
    /\ LinksOf(Unwrap(last.ret)) # {}

(***************************************************************************)
(* The link graph: its vertices are the unmasked cells, and two cells are  *)
(* joined when one has a link whose direction leads to the other.          *)
(***************************************************************************)
LinkTargets(attrs, cell) ==
    {neighbours(attrs, cell)[d] : d \in links(attrs, cell) \cap DOMAIN neighbours(attrs, cell)}

Joined(attrs, a, b) == b \in LinkTargets(attrs, a) \/ a \in LinkTargets(attrs, b)

Adjacent(attrs, a, b) ==
    \/ \E d \in DOMAIN neighbours(attrs, a) : neighbours(attrs, a)[d] = b
    \/ \E d \in DOMAIN neighbours(attrs, b) : neighbours(attrs, b)[d] = a

\* the cells a path of links joins to the cells of `set`
RECURSIVE LinkClosure(_, _)
LinkClosure(attrs, set) ==
    LET more == set \cup {b \in DOMAIN attrs : \E a \in set : Joined(attrs, a, b)}
    IN IF more = set THEN set ELSE LinkClosure(attrs, more)

\* the cells a path of grid adjacencies joins to the cells of `set`
RECURSIVE AdjacencyClosure(_, _)
AdjacencyClosure(attrs, set) ==
    LET more == set \cup {b \in DOMAIN attrs : \E a \in set : Adjacent(attrs, a, b)}
    IN IF more = set THEN set ELSE AdjacencyClosure(attrs, more)

LinkConnected(attrs) == \A a \in DOMAIN attrs : LinkClosure(attrs, {a}) = DOMAIN attrs
AdjacencyConnected(attrs) == \A a \in DOMAIN attrs : AdjacencyClosure(attrs, {a}) = DOMAIN attrs

\* the undirected links
Passages(attrs) ==
    {{p[1], p[2]} : p \in {q \in (DOMAIN attrs) \X (DOMAIN attrs) : Joined(attrs, q[1], q[2])}}

Components(attrs) == {LinkClosure(attrs, {a}) : a \in DOMAIN attrs}

\* a graph has no cycle exactly when it has one edge fewer per component than vertices
Acyclic(attrs) ==
    Cardinality(Passages(attrs)) = Cardinality(DOMAIN attrs) - Cardinality(Components(attrs))

SpanningTree(attrs) ==
    /\ LinkConnected(attrs)
    /\ Acyclic(attrs)
    /\ Cardinality(Passages(attrs)) = Cardinality(DOMAIN attrs) - 1

Unmasked == \A i \in 1..Len(cells) : IsSome(cells[i])

\* breadth-first hop counts from `start` over the links: the reference for the solver
RECURSIVE BreadthFirst(_, _, _, _)
BreadthFirst(attrs, map, level, k) ==
    IF level = {}
    THEN map
    ELSE LET seen == (DOMAIN map) \cup level
             found == [c \in seen |-> IF c \in DOMAIN map THEN map[c] ELSE k]
             next == {b \in DOMAIN attrs : b \notin seen /\ \E a \in level : Joined(attrs, a, b)}
         IN BreadthFirst(attrs, found, next, k + 1)

ShortestDistances(attrs, start) == BreadthFirst(attrs, EmptyMap, {start}, 0)

\* C6: BinaryTree (North, East) on a grid with no masked cell leaves a spanning
\* tree, whatever the RNG draws: the link graph is connected, has no cycle and
\* has rows*columns - 1 links.
C6_BinaryTreeSpanningTree ==
    (CarveDone /\ router.kind = "BinaryTree" /\ Unmasked) =>
        /\ SpanningTree(attributes)
        /\ Cardinality(Passages(attributes)) = rows * columns - 1

\* BinaryTree has carved the largest square grid, with draws that sent a cell
\* North and a cell East where both were open
C6_Witness ==
    /\ CarveDone
    /\ router.kind = "BinaryTree"
    /\ Unmasked
    /\ rows = columns
    /\ rows * columns = CarveMaxCells
    /\ \E a \in Cells, b \in Cells :
          /\ {"North", "East"} \subseteq DOMAIN NeighboursOf(a)
          /\ {"North", "East"} \subseteq DOMAIN NeighboursOf(b)
          /\ "North" \in LinksOf(a) /\ "East" \notin LinksOf(a)
          /\ "East" \in LinksOf(b) /\ "North" \notin LinksOf(b)

\* C7: SideWinder (ceiling North, side East) on a grid with no masked cell
\* leaves a spanning tree, whatever the RNG draws.
C7_SideWinderSpanningTree ==
    (CarveDone /\ router.kind = "SideWinder" /\ Unmasked) =>
        /\ SpanningTree(attributes)
        /\ Cardinality(Passages(attributes)) = rows * columns - 1

\* SideWinder has carved the largest square grid and closed a run of several
\* cells with a North link from a cell that is not the run's last
C7_Witness ==
    /\ CarveDone
    /\ router.kind = "SideWinder"
    /\ Unmasked
    /\ rows = columns
    /\ rows * columns = CarveMaxCells
    /\ \E a \in Cells : {"North", "East"} \subseteq LinksOf(a)

\* C8 as claimed: when the unmasked cells are connected by grid adjacency,
\* BinaryTree and SideWinder leave the link graph over them connected.
C8_MaskedCarveConnected ==
    (CarveDone /\ router.kind \in {"BinaryTree", "SideWinder"}
        /\ AdjacencyConnected(attributes)) => LinkConnected(attributes)

\* the same for SideWinder alone
C8_SideWinderMaskedConnected ==
    (CarveDone /\ router.kind = "SideWinder" /\ AdjacencyConnected(attributes))
        => LinkConnected(attributes)

\* the map of the Distances the latest solve returned, and its start cell
Solved == last.op = "solve"
SolvedMap == all_cells(Unwrap(last.ret))
SolvedStart == Unwrap(last.cell)

\* C9 as claimed: every cell of the result of solve has the length of a
\* shortest path of links from the start as its distance, on every link state.
C9_ShortestDistances ==
    Solved => \A c \in DOMAIN SolvedMap :
                 SolvedMap[c] = ShortestDistances(attributes, SolvedStart)[c]

\* C10: the cells of the result of solve are exactly the cells a path of links
\* joins to the start, the start included.
C10_ResultIsLinkClosure ==
    Solved => DOMAIN SolvedMap = LinkClosure(attributes, {SolvedStart})

\* solve has returned several cells and left out a cell that is adjacent to one
\* of them but not linked
C10_Witness ==
    /\ Solved
    /\ Cardinality(DOMAIN SolvedMap) >= 3
    /\ \E a \in DOMAIN SolvedMap, b \in Cells \ DOMAIN SolvedMap : Adjacent(attributes, a, b)

(***************************************************************************)
(* The grid as the masking predicate defines it.                           *)
(***************************************************************************)
\* the position one step from `cell` in direction d, in the integers
Moved(cell, d) ==
    <<cell[1] + (IF d = "South" THEN 1 ELSE IF d = "North" THEN -1 ELSE 0),
      cell[2] + (IF d = "East" THEN 1 ELSE IF d = "West" THEN -1 ELSE 0)>>

InRectangle(p) == p[1] >= 0 /\ p[1] < rows /\ p[2] >= 0 /\ p[2] < columns

\* C11: for every unmasked cell A and direction d, neighbours(A) has an entry
\* for d exactly when the position one step from A in d is inside the
\* rectangle and unmasked, and the entry is the cell at that position; the
\* cells that have a neighbour map are the unmasked positions.
C11_NeighbourMap ==
    /\ Cells = masking
    /\ \A A \in Cells :
          /\ DOMAIN NeighboursOf(A) \subseteq Compass
          /\ \A d \in Compass :
                IF InRectangle(Moved(A, d)) /\ Moved(A, d) \in masking
                THEN d \in DOMAIN NeighboursOf(A) /\ NeighboursOf(A)[d] = Moved(A, d)
                ELSE d \notin DOMAIN NeighboursOf(A)

\* a grid in which a cell has all four neighbours and another cell is next to
\* a masked position of the rectangle
C11_Witness ==
    /\ \E A \in Cells : DOMAIN NeighboursOf(A) = Compass
    /\ \E B \in Cells, d \in Compass :
          /\ InRectangle(Moved(B, d))
          /\ Moved(B, d) \notin masking
          /\ d \notin DOMAIN NeighboursOf(B)

\* C12: no step of the carving and no call of link_cell, unlink_cell, solve or
\* apply_distances changes the neighbour map of a cell, the cell array, the
\* dimensions or the set of cells that have attributes.
C12_NeighboursAndCellsFrozen ==
    [][/\ cells' = cells
       /\ rows' = rows
       /\ columns' = columns
       /\ DOMAIN attributes' = DOMAIN attributes
       /\ \A c \in Cells : neighbours(attributes', c) = NeighboursOf(c)
      ]_vars

\* apply_distances has just written distances to cells that have neighbours and
\* passages, on a maze where another cell has none
C12_Witness ==
    /\ last.op = "apply_distances"
    /\ \E c \in Cells : attributes[c].distance = None
    /\ \E c \in Cells :
          /\ IsSome(attributes[c].distance)
          /\ Unwrap(attributes[c].distance) >= 1
          /\ Cardinality(DOMAIN NeighboursOf(c)) >= 2
          /\ LinksOf(c) # {}

\* the router of the kind this run carves with, as it is constructed
FreshRouter ==
    IF router.kind = "BinaryTree" THEN BinaryTree_new_for_compass ELSE SideWinder_new_for_compass

\* a second construction with the rows, columns, masking predicate and router
\* kind of this run, its RNG returning what this run's RNG returned
Again == Grid_grid(rows, columns, masking, FreshRouter, Unwrap(stream))

RowMajorBefore(a, b) == a[1] < b[1] \/ (a[1] = b[1] /\ a[2] < b[2])

\* C14: cells() returns the positions of the rectangle that the masking
\* predicate allows, each once, in row-major order, so its length is the number
\* of allowed positions; the slot array has rows*columns slots.
C14_CellsAreAllowedPositions ==
    /\ Len(cells) = rows * columns
    /\ last.op = "cells" =>
          LET r == Unwrap(last.ret)
          IN /\ {r[i] : i \in 1..Len(r)} = {p \in Positions(rows, columns) : p \in masking}
             /\ Len(r) = Cardinality({p \in Positions(rows, columns) : p \in masking})
             /\ \A i, j \in 1..Len(r) : i < j => RowMajorBefore(r[i], r[j])

\* cells() was called on a 2x2 grid whose first column is masked and returned
\* the cells of the second column, top first
C14_Witness ==
    /\ last.op = "cells"
    /\ rows = 2 /\ columns = 2
    /\ masking = {<<0, 1>>, <<1, 1>>}
    /\ Unwrap(last.ret) = <<(<<0, 1>>), (<<1, 1>>)>>

\* C15: cell(row, col) returns the cell with exactly these coordinates when
\* row < rows, col < columns and the masking predicate allows the position, and
\* None when the position is outside the rectangle or masked.
C15_CellLookup ==
    last.op = "cell" =>
        LET p == Unwrap(last.cell)
        IN last.ret = IF p[1] < rows /\ p[2] < columns /\ p \in masking
                      THEN Some(p)
                      ELSE None

\* cell() was called with a column equal to the number of columns, in a row
\* that has a further row of unmasked cells below it, and returned None
C15_Witness ==
    /\ last.op = "cell"
    /\ Unwrap(last.cell)[2] = columns
    /\ Unwrap(last.cell)[1] + 1 < rows
    /\ <<Unwrap(last.cell)[1] + 1, 0>> \in masking
    /\ last.ret = None

\* cell() was called with the coordinates of an unmasked cell that is not the
\* first of its row nor of its column, on a grid that has a masked position
C15_WitnessFound ==
    /\ last.op = "cell"
    /\ IsSome(last.ret)
    /\ Unwrap(last.cell)[1] >= 1
    /\ Unwrap(last.cell)[2] >= 1
    /\ \E q \in Positions(rows, columns) : q \notin masking

\* C16: the result of solve maps the start cell to 0 and no other cell to 0, so
\* start() on it returns the start cell and does not fail.
C16_StartAtZero ==
    Solved =>
        /\ SolvedStart \in DOMAIN SolvedMap
        /\ SolvedMap[SolvedStart] = 0
        /\ \A c \in DOMAIN SolvedMap : c # SolvedStart => SolvedMap[c] # 0
        /\ Distances_start(Unwrap(last.ret)) = [panic |-> FALSE, results |-> {SolvedStart}]

\* solve has returned from a start that has two passages and is not the first
\* cell, with cells at a distance of 2 or more
C16_Witness ==
    /\ Solved
    /\ SolvedStart # <<0, 0>>
    /\ Cardinality(LinksOf(SolvedStart)) >= 2
    /\ \E c \in DOMAIN SolvedMap : SolvedMap[c] >= 2

\* the start coordinates are outside the rectangle or at a masked position
InvalidStart(p) == p[1] >= rows \/ p[2] >= columns \/ p \notin masking

\* C17: solve with a start outside the rectangle or at a masked position fails
\* fatally: it returns no Distances, and the maze is as it was; with any other
\* start it returns.
C17_InvalidStartPanics ==
    [][last'.op \in {"solve", "solve_panic"} =>
        LET p == Unwrap(last'.cell)
        IN IF InvalidStart(p)
           THEN /\ last'.op = "solve_panic"
                /\ last'.ret = None
                /\ attributes' = attributes
                /\ max_distance' = max_distance
                /\ cells' = cells
           ELSE last'.op = "solve"
      ]_vars

\* solve has failed on a masked position inside the rectangle, on a maze with passages
C17_Witness ==
    /\ last.op = "solve_panic"
    /\ InRectangle(Unwrap(last.cell))
    /\ Unwrap(last.cell) \notin masking
    /\ \E c \in Cells : LinksOf(c) # {}

\* the cells that hold a distance
WithDistance == {c \in Cells : IsSome(attributes[c].distance)}

\* C18: apply_distances(result) on a maze on which no cell has a distance
\* leaves every cell of the result with its value as distance and every other
\* cell without one, sets max_distance to the largest value of the result and
\* changes no link set.
C18_ApplyDistancesFirst ==
    [][(last'.op = "apply_distances" /\ WithDistance = {}) =>
        LET map == all_cells(Unwrap(last'.ret))
        IN /\ \A c \in Cells :
                 attributes'[c].distance = IF c \in DOMAIN map THEN Some(map[c]) ELSE None
           /\ IsSome(max_distance')
           /\ \E c \in DOMAIN map : map[c] = Unwrap(max_distance')
           /\ \A c \in DOMAIN map : map[c] <= Unwrap(max_distance')
           /\ \A c \in Cells : links(attributes', c) = LinksOf(c)
      ]_vars

\* the first two calls on a carved maze were solve and apply_distances; the
\* result has several cells and leaves out a cell next to one of them
C18_Witness ==
    /\ last.op = "apply_distances"
    /\ calls = 2
    /\ IsSome(max_distance) /\ Unwrap(max_distance) >= 1
    /\ \E a \in WithDistance, b \in Cells \ WithDistance : Adjacent(attributes, a, b)
    /\ WithDistance = DOMAIN all_cells(Unwrap(last.ret))

\* C19 as claimed, in the states that an apply_distances call leaves: the cells
\* that hold a distance are the cells of the result just applied.
C19_HoldersAreLastResult ==
    last.op = "apply_distances" => WithDistance = DOMAIN all_cells(Unwrap(last.ret))

\* C19 as claimed: once apply_distances has been called, max_distance is the
\* largest distance that a cell holds.
C19_MaxDistanceIsMaximum ==
    IsSome(max_distance) =>
        /\ \A c \in WithDistance : Unwrap(attributes[c].distance) <= Unwrap(max_distance)
        /\ \E c \in WithDistance : Unwrap(attributes[c].distance) = Unwrap(max_distance)

\* C19 as claimed: after an apply_distances call, max_distance is the largest
\* distance a cell holds, no cell holds a larger one, and the cells that hold a
\* distance are the cells of the result applied last.
C19_AppliedDistances == C19_HoldersAreLastResult /\ C19_MaxDistanceIsMaximum

(***************************************************************************)
(* The text as lines.                                                      *)
(***************************************************************************)
Newlines(s) == {i \in 1..Len(s) : s[i] = NEWLINE}

\* the lines of a text in which every line ends with a newline, without the newlines
Lines(s) ==
    LET End(k) == CHOOSE i \in Newlines(s) : Cardinality({j \in Newlines(s) : j <= i}) = k
        Start(k) == IF k = 1 THEN 1 ELSE End(k - 1) + 1
    IN [k \in 1..Cardinality(Newlines(s)) |-> SubSeq(s, Start(k), End(k) - 1)]

FixtureBorder == <<"+", "-", "-", "-", "+", "-", "-", "-", "+", "\n">>
FixtureBody == <<"|", " ", " ", " ", "|", " ", " ", " ", "|", "\n">>
\* the rendering of an unlinked 2x2 grid
Fixture == FixtureBorder \o FixtureBody \o FixtureBorder \o FixtureBody \o FixtureBorder

Rendered == last.op = "fmt"
Text == Unwrap(last.ret)

\* the text is 2*rows+1 lines of 4*columns+1 glyphs: a top border, then a body
\* line and a closing line per row, with a gap after a cell exactly where it is
\* unmasked and linked East, a gap under it exactly where it is unmasked and
\* linked South, and three fill glyphs in a masked cell
RenderedAsLines ==
    /\ Text = <<>> \/ Text[Len(Text)] = NEWLINE
    /\ Len(Lines(Text)) = 2 * rows + 1
    /\ \A k \in 1..Len(Lines(Text)) : Len(Lines(Text)[k]) = 4 * columns + 1
    /\ \A i \in 1..(4 * columns + 1) :
          Lines(Text)[1][i] = IF (i - 1) % 4 = 0 THEN "+" ELSE "-"
    /\ \A r \in 0..(rows - 1), c \in 0..(columns - 1) :
          LET body == Lines(Text)[2 * r + 2]
              closing == Lines(Text)[2 * r + 3]
              unmasked == <<r, c>> \in masking
          IN /\ body[4 * c + 5] = IF unmasked /\ "East" \in LinksOf(<<r, c>>) THEN " " ELSE "|"
             /\ \A i \in 2..4 :
                   closing[4 * c + i] =
                       IF unmasked /\ "South" \in LinksOf(<<r, c>>) THEN " " ELSE "-"
             /\ ~unmasked => \A i \in 2..4 : body[4 * c + i] = NONE
    /\ (rows = 2 /\ columns = 2 /\ masking = Positions(2, 2)
           /\ \A c \in Cells : LinksOf(c) = {}) => Text = Fixture

\* C20 as claimed: every rendering is 2*rows+1 lines of 4*columns+1 glyphs
\* with the dividers open exactly at the East and South links.
C20_TextRendering == Rendered => RenderedAsLines

\* C20 as amended: the rendering of a grid with at least one row is 2*rows+1
\* lines of 4*columns+1 glyphs with the dividers open exactly at the East and
\* South links, and an unlinked 2x2 grid renders as the fixture; the rendering
\* of a grid with no row is the empty text.
C20_TextRenderingOfRows ==
    Rendered => IF rows >= 1 THEN RenderedAsLines ELSE Text = <<>>

\* a 2x2 grid with a masked position has been rendered, with a passage to the
\* East and a passage to the South
C20_Witness ==
    /\ Rendered
    /\ rows = 2 /\ columns = 2
    /\ Cardinality(masking) = 3
    /\ \E a \in Cells, b \in Cells : "East" \in LinksOf(a) /\ "South" \in LinksOf(b)

\* the allowed positions in row-major order
RECURSIVE RowMajor(_)
RowMajor(set) ==
    IF set = {}
    THEN <<>>
    ELSE LET first == CHOOSE a \in set : \A b \in set \ {a} : RowMajorBefore(a, b)
         IN <<first>> \o RowMajor(set \ {first})

\* C24: the traversal drivers call by_cell for the unmasked cells in row-major
\* order, once each and never for a masked slot: what has been visited is
\* always the beginning of that order, and all of it when the carving by
\* BinaryTree (carve_by_cell) or SideWinder (carve_by_row) ends; NoOp visits
\* nothing and leaves every link set empty.
C24_DriversVisitRowMajor ==
    /\ [](pc = "carve" =>
            /\ Len(visited) <= Len(RowMajor(masking))
            /\ visited = SubSeq(RowMajor(masking), 1, Len(visited))
            /\ (CarveDone /\ router.kind # "NoOp") => visited = RowMajor(masking))
    /\ [][router.kind = "NoOp" =>
            /\ visited' = <<>>
            /\ \A c \in Cells : links(attributes', c) = {}]_vars

\* the carving of a grid of several rows has ended; it has masked slots at the
\* start of a row and between cells, and every unmasked cell has been visited
C24_Witness ==
    /\ CarveDone
    /\ router.kind = "SideWinder"
    /\ rows >= 2
    /\ cells[1] = None
    /\ Len(visited) >= 4
    /\ \E i \in 2..(Len(cells) - 1) : cells[i] = None /\ cells[i - 1] # None /\ cells[i + 1] # None

\* C27: after SideWinder has carved an unmasked grid, every cell of the top row
\* but the last is linked East and no cell of the top row is linked North; after
\* BinaryTree has carved one, the top row is linked East throughout and the last
\* column is linked North throughout.
C27_OpenTopRow ==
    (CarveDone /\ Unmasked /\ router.kind \in {"BinaryTree", "SideWinder"}) =>
        /\ \A c \in 0..(columns - 2) : "East" \in LinksOf(<<0, c>>)
        /\ \A c \in 0..(columns - 1) : "North" \notin LinksOf(<<0, c>>)
        /\ \A A \in Cells : "North" \in LinksOf(A) => A[1] >= 1
        /\ router.kind = "BinaryTree" =>
              \A r \in 1..(rows - 1) : "North" \in LinksOf(<<r, columns - 1>>)

\* SideWinder has carved an unmasked grid of three rows and three columns in
\* which a lower row has a passage East
C27_Witness ==
    /\ CarveDone
    /\ Unmasked
    /\ router.kind = "SideWinder"
    /\ rows = 3 /\ columns = 3
    /\ \E A \in Cells : A[1] >= 1 /\ "East" \in LinksOf(A)

\* C28: on a maze whose link graph has no cycle, solve returns for every start
\* and every order of walking a cell's links the distances of a breadth-first
\* search over the links.
C28_DepthFirstIsBreadthFirst ==
    (Solved /\ Acyclic(attributes)) => SolvedMap = ShortestDistances(attributes, SolvedStart)

\* solve has returned on a maze without a cycle from a start with two passages,
\* one of which leads to a cell with a further passage
C28_Witness ==
    /\ Solved
    /\ Acyclic(attributes)
    /\ Cardinality(LinksOf(SolvedStart)) >= 2
    /\ Cardinality(DOMAIN SolvedMap) >= 4
    /\ \E c \in DOMAIN SolvedMap : SolvedMap[c] = 2

\* C29: the neighbour maps are symmetric: neighbours(A) maps d to B exactly
\* when neighbours(B) maps d.reverse() to A, and reverse is an involution.
C29_NeighbourSymmetry ==
    /\ \A d \in Compass : reverse(reverse(d)) = d
    /\ \A A \in Cells : \A d \in DOMAIN NeighboursOf(A) : NeighboursOf(A)[d] \in Cells
    /\ \A A \in Cells, B \in Cells, d \in Compass :
          (d \in DOMAIN NeighboursOf(A) /\ NeighboursOf(A)[d] = B)
              <=> (reverse(d) \in DOMAIN NeighboursOf(B) /\ NeighboursOf(B)[reverse(d)] = A)

\* a grid with masked positions in which a cell has a neighbour to the South
\* and a neighbour to the West and none to the East
C29_Witness ==
    /\ \E p \in Positions(rows, columns) : p \notin masking
    /\ \E A \in Cells :
          /\ {"South", "West"} \subseteq DOMAIN NeighboursOf(A)
          /\ "East" \notin DOMAIN NeighboursOf(A)
          /\ InRectangle(Moved(A, "East"))

\* C30: during and after the carving by BinaryTree or SideWinder, on every
\* masked grid and for every RNG value, the link graph has no cycle and every
\* link goes to a neighbour, that is to an adjacent unmasked cell of the grid.
C30_CarvedAcyclic ==
    pc = "carve" =>
        /\ Acyclic(attributes)
        /\ \A A \in Cells : \A d \in LinksOf(A) :
              /\ d \in DOMAIN NeighboursOf(A)
              /\ NeighboursOf(A)[d] = Moved(A, d)
              /\ Moved(A, d) \in masking
              /\ InRectangle(Moved(A, d))

\* the carving of a grid with a masked position has ended with the unmasked
\* cells in several components, one of them with three cells or more
C30_Witness ==
    /\ CarveDone
    /\ router.kind \in {"BinaryTree", "SideWinder"}
    /\ \E p \in Positions(rows, columns) : p \notin masking
    /\ Cardinality(Components(attributes)) >= 2
    /\ \E comp \in Components(attributes) : Cardinality(comp) >= 3

(***************************************************************************)
(* The steps of the routers.                                               *)
(***************************************************************************)
\* the position one step from the cell is an unmasked cell of the grid
HasNeighbour(cell, d) == InRectangle(Moved(cell, d)) /\ Moved(cell, d) \in masking

\* the values the RNG returned in this step
Drew == SubSeq(Unwrap(stream'), Len(Unwrap(stream)) + 1, Len(Unwrap(stream')))

\* the step calls by_cell for this cell
Visits(cell) == visited' = Append(visited, cell)

\* the step opens the passage from the cell in the direction and changes no other link
Opened(cell, d) ==
    \A c \in Cells :
        links(attributes', c) =
            links(attributes, c) \cup (IF c = cell THEN {d} ELSE {})
                                 \cup (IF c = Moved(cell, d) THEN {reverse(d)} ELSE {})

\* the step changes no link
NothingOpened == \A c \in Cells : links(attributes', c) = links(attributes, c)

\* the step calls link_cell for the cell and the direction
Linked(cell, d) == IF HasNeighbour(cell, d) THEN Opened(cell, d) ELSE NothingOpened

\* the rendering asserted by check_mock_binarytree
BinaryTreeFixture ==
       <<"+", "-", "-", "-", "+", "-", "-", "-", "+", "-", "-", "-", "+", "\n">>
    \o <<"|", " ", " ", " ", " ", " ", " ", " ", " ", " ", " ", " ", "|", "\n">>
    \o <<"+", " ", " ", " ", "+", "-", "-", "-", "+", " ", " ", " ", "+", "\n">>
    \o <<"|", " ", " ", " ", "|", " ", " ", " ", " ", " ", " ", " ", "|", "\n">>
    \o <<"+", " ", " ", " ", "+", "-", "-", "-", "+", " ", " ", " ", "+", "\n">>
    \o <<"|", " ", " ", " ", "|", " ", " ", " ", " ", " ", " ", " ", "|", "\n">>
    \o <<"+", "-", "-", "-", "+", "-", "-", "-", "+", "-", "-", "-", "+", "\n">>

\* the rendering asserted by check_mock_sidewinder
SideWinderFixture ==
       <<"+", "-", "-", "-", "+", "-", "-", "-", "+", "-", "-", "-", "+", "\n">>
    \o <<"|", " ", " ", " ", " ", " ", " ", " ", " ", " ", " ", " ", "|", "\n">>
    \o <<"+", " ", " ", " ", "+", " ", " ", " ", "+", " ", " ", " ", "+", "\n">>
    \o <<"|", " ", " ", " ", "|", " ", " ", " ", "|", " ", " ", " ", "|", "\n">>
    \o <<"+", "-", "-", "-", "+", " ", " ", " ", "+", " ", " ", " ", "+", "\n">>
    \o <<"|", " ", " ", " ", " ", " ", " ", " ", "|", " ", " ", " ", "|", "\n">>
    \o <<"+", "-", "-", "-", "+", "-", "-", "-", "+", "-", "-", "-", "+", "\n">>

\* the directions among North, East in which the cell has a neighbour
BinaryTreeCandidates(cell) ==
    SelectSeq(<<"North", "East">>, LAMBDA d : HasNeighbour(cell, d))

\* C25: BinaryTree, visiting a cell, takes the directions among North, East
\* that have a neighbour: with none it changes no link and takes nothing from
\* the RNG; with one it links that direction and takes nothing; with two it
\* takes one value and links the candidate at index value mod 2.  With
\* StepRng::new(0, 1) on the unmasked 3x3 grid the RNG returns 0, 1, 2, 3 and
\* the maze renders as the fixture of check_mock_binarytree.
C25_BinaryTreeStep ==
    /\ [][\A cell \in Cells : (router.kind = "BinaryTree" /\ Visits(cell)) =>
            LET candidates == BinaryTreeCandidates(cell)
            IN CASE Len(candidates) = 0 -> NothingOpened /\ Drew = <<>>
                 [] Len(candidates) = 1 -> Opened(cell, candidates[1]) /\ Drew = <<>>
                 [] OTHER -> /\ Len(Drew) = 1
                             /\ Opened(cell, candidates[(Drew[1] % 2) + 1])]_vars
    /\ []((CarveDone /\ router.kind = "BinaryTree" /\ router.rng = StepRng_new(0, 1)
              /\ rows = 3 /\ columns = 3 /\ Unmasked) =>
            /\ stream = Some(<<0, 1, 2, 3>>)
            /\ fmt(rows, columns, cells, attributes) = BinaryTreeFixture)

\* BinaryTree with StepRng::new(0, 1) has carved the unmasked 3x3 grid
C25_Witness ==
    /\ CarveDone
    /\ router.kind = "BinaryTree"
    /\ router.rng = StepRng_new(0, 1)
    /\ rows = 3 /\ columns = 3
    /\ Unmasked
    /\ Len(visited) = 9

\* a step of SideWinder for a cell: the cell joins the run; the run is closed
\* when the cell has no East neighbour, or when `flips` holds of the cell and
\* the value taken from the RNG is even; closing takes a value, calls link_cell
\* towards North for the cell of the run at index value mod the length of the
\* run, and empties the run; otherwise the cell is linked East and the run kept
SideWinderVisit(cell, flips) ==
    LET run == Append(router.run, cell)
        Close(before) ==
            /\ Len(Drew) = Len(before) + 1
            /\ SubSeq(Drew, 1, Len(before)) = before
            /\ Linked(run[(Drew[Len(Drew)] % Len(run)) + 1], "North")
            /\ router'.run = <<>>
        Keep(before) ==
            /\ Drew = before
            /\ Opened(cell, "East")
            /\ router'.run = run
    IN IF ~HasNeighbour(cell, "East")
       THEN Close(<<>>)
       ELSE IF flips
            THEN /\ Len(Drew) >= 1
                 /\ IF Drew[1] % 2 = 0 THEN Close(<<Drew[1]>>) ELSE Keep(<<Drew[1]>>)
            ELSE Keep(<<>>)

\* the run is empty when a row ends: before the first cell, after the last,
\* and whenever the next cell to visit is in another row than the last one
RunEmptyBetweenRows ==
    (pc = "carve" /\ router.kind = "SideWinder") =>
        LET order == RowMajor(masking)
            n == Len(visited)
        IN (n = 0 \/ n = Len(order) \/ order[n + 1][1] # visited[n][1]) => router.run = <<>>

\* C26 as claimed: SideWinder flips the coin for every cell that has an East
\* neighbour and is not in the top row, on every masked grid.
C26_SideWinderStepByRow ==
    /\ [][\A cell \in Cells : (router.kind = "SideWinder" /\ Visits(cell)) =>
            SideWinderVisit(cell, cell[1] >= 1)]_vars
    /\ []RunEmptyBetweenRows

\* C26 as amended: SideWinder flips the coin for every cell that has an East
\* neighbour and a North neighbour; a cell with an East neighbour and no North
\* neighbour is linked East with nothing taken from the RNG.  The run is empty
\* when a row ends.
C26_SideWinderStep ==
    /\ [][\A cell \in Cells : (router.kind = "SideWinder" /\ Visits(cell)) =>
            SideWinderVisit(cell, HasNeighbour(cell, "North"))]_vars
    /\ []RunEmptyBetweenRows

\* SideWinder has carved a grid in which a cell below the top row has an East
\* neighbour and no North neighbour, and in which a run of two cells was closed
C26_Witness ==
    /\ CarveDone
    /\ router.kind = "SideWinder"
    /\ \E cell \in Cells :
          /\ cell[1] >= 1
          /\ HasNeighbour(cell, "East")
          /\ ~HasNeighbour(cell, "North")
          /\ "East" \in LinksOf(cell)
    /\ \E cell \in Cells : {"West", "North"} \subseteq LinksOf(cell)

\* C23: the unmasked 3x3 grid carved by SideWinder with StepRng::new(1, 1),
\* whose RNG returns 1, 2, 3, ... and is asked ten times, renders as the fixture
\* of check_mock_sidewinder; solve from (2,0) on it returns distances with
\* start() = (2,0), distance 6 for (2,2), and 1, 1, 1, 1, 2, 2, 1, 0 cells at
\* the distances 0 to 7.
C23_SideWinderFixture ==
    /\ (CarveDone /\ router.kind = "SideWinder" /\ router.rng = StepRng_new(1, 1)
           /\ rows = 3 /\ columns = 3 /\ Unmasked) =>
          /\ stream = Some(<<1, 2, 3, 4, 5, 6, 7, 8, 9, 10>>)
          /\ fmt(rows, columns, cells, attributes) = SideWinderFixture
    /\ (rows = 3 /\ columns = 3 /\ stream = Some(<<1, 2, 3, 4, 5, 6, 7, 8, 9, 10>>)) =>
          /\ pc = "carve" => router.kind = "SideWinder"
          /\ (Solved /\ SolvedStart = <<2, 0>>) =>
                LET distances == Unwrap(last.ret)
                IN /\ ~Distances_start(distances).panic
                   /\ Distances_start(distances).results = {<<2, 0>>}
                   /\ Distances_distance(distances, <<2, 2>>) = [panic |-> FALSE, value |-> Some(6)]
                   /\ [k \in 0..7 |-> Cardinality(Distances_cells(distances, k))]
                        = [k \in 0..7 |-> <<1, 1, 1, 1, 2, 2, 1, 0>>[k + 1]]

\* solve from (2,0) has returned on the 3x3 grid for which the RNG returned 1 to 10
C23_Witness ==
    /\ Solved
    /\ SolvedStart = <<2, 0>>
    /\ rows = 3 /\ columns = 3
    /\ stream = Some(<<1, 2, 3, 4, 5, 6, 7, 8, 9, 10>>)

\* the call of solve in progress
Solving == Unwrap(solving)

\* C22: every operation terminates.  The construction ends, and when the
\* carving by BinaryTree or SideWinder ends by_cell has been called once for
\* each unmasked cell.  Every call of solve ends, on every link state, those
\* with cycles included: frontier is never called twice for a cell, never more
\* calls are open than there are cells, and when the first call returns
\* frontier has been called for exactly the cells joined to the start by links
\* and the map is one that Dijkstra::frontier can leave.
C22_Terminates ==
    /\ <>(pc = "ready")
    /\ [](CarveDone /\ router.kind # "NoOp" =>
             /\ Len(visited) = Cardinality(masking)
             /\ \A p \in masking : \E i \in 1..Len(visited) : visited[i] = p)
    /\ (IsSome(solving) ~> (solving = None /\ last.op = "solve"))
    /\ [](IsSome(solving) =>
             /\ \A i \in 1..Len(Solving.entered), j \in 1..Len(Solving.entered) :
                   Solving.entered[i] = Solving.entered[j] => i = j
             /\ Len(Solving.stack) <= Cardinality(Cells)
             /\ Solving.stack = <<>> =>
                   /\ {Solving.entered[i] : i \in 1..Len(Solving.entered)}
                        = LinkClosure(attributes, {Solving.entered[1]})
                   /\ Solving.map \in Frontier(attributes, EmptyMap, Solving.entered[1], 0))

\* the first call of frontier has returned on a maze in which link_cell has
\* closed a cycle of four cells
C22_Witness ==
    /\ IsSome(solving)
    /\ Solving.stack = <<>>
    /\ Len(Solving.entered) = 4
    /\ ~Acyclic(attributes)
    /\ \A c \in Cells : Cardinality(LinksOf(c)) = 2

\* the letters that follow the decimal digits
Letters ==
    <<"a", "b", "c", "d", "e", "f", "g", "h", "i", "j", "k", "l", "m",
      "n", "o", "p", "q", "r", "s", "t", "u", "v", "w", "x", "y", "z">>

\* the glyphs that are the digit of n in base 36: none when n has no single digit
Base36(n) ==
    IF n < 10 THEN {ToString(n)} ELSE IF n < 36 THEN {Letters[n - 9]} ELSE {}

\* the three glyphs of the interior of the cell in the rendered text
Interior(cell) == SubSeq(Lines(Text)[2 * cell[1] + 2], 4 * cell[2] + 2, 4 * cell[2] + 4)

\* C21 as claimed: in the rendered text every cell with a distance shows the
\* digit of the distance in base 36 between two spaces, whatever the distance,
\* and a cell without a distance shows three spaces.
C21_DistanceDigit ==
    Rendered =>
        \A cell \in Cells :
            LET distance == attributes[cell].distance
            IN IF IsSome(distance)
               THEN \E glyph \in Base36(Unwrap(distance)) : Interior(cell) = <<" ", glyph, " ">>
               ELSE Interior(cell) = <<" ", " ", " ">>

\* C21 as amended: a cell with a distance of at most 35 shows the digit of the
\* distance in base 36 between two spaces; a cell without a distance, or with a
\* distance of 36 or more, shows three spaces.
C21_DistanceDigitBelow36 ==
    Rendered =>
        \A cell \in Cells :
            LET distance == attributes[cell].distance
            IN IF IsSome(distance) /\ Unwrap(distance) <= 35
               THEN \E glyph \in Base36(Unwrap(distance)) : Interior(cell) = <<" ", glyph, " ">>
               ELSE Interior(cell) = <<" ", " ", " ">>

\* a maze with a masked position has been rendered in which cells hold the
\* distances 9, 10, 35 and 36 and a cell holds none
C21_Witness ==
    /\ Rendered
    /\ \E p \in Positions(rows, columns) : p \notin masking
    /\ \A n \in {9, 10, 35, 36} : \E cell \in Cells : attributes[cell].distance = Some(n)
    /\ \E cell \in Cells : attributes[cell].distance = None

====
